---- MODULE Spec2Model ----
(***************************************************************************)
(* Model of @file-type/pdf: the PDF detector (src/lib/index.ts) and its    *)
(* buffered line/byte reader PdfTokenizerReader (src/unnamed/part_001).    *)
(*                                                                         *)
(* Text and byte buffers are TLA+ strings, one character per byte (the     *)
(* inputs are ASCII, on which latin1 and utf-8 decoding agree).  Offsets   *)
(* are 0-based as in the source; SubSeq is 1-based.                        *)
(***************************************************************************)
EXTENDS Integers, Sequences, FiniteSets, TLC

VARIABLES
    data,          \* the bytes of the source behind the tokenizer
    tpos,          \* tokenizer.position
    nreads,        \* readBuffer calls issued on the tokenizer by the last step
    buf,           \* PdfTokenizerReader.buf
    pos,           \* PdfTokenizerReader.pos
    eof,           \* PdfTokenizerReader.eof
    lastOp,        \* reader harness: the last reader operation called
    out,           \* reader harness: what that operation returned
    prevRest,      \* reader harness: the unconsumed input before that operation
    prevTpos,      \* tokenizer.position before the reader operation / the detect call
    pc,            \* _detectPdf: where the call stands
    maxScanLines,  \* _detectPdf: opts.maxScanLines
    scannedLines,  \* _detectPdf: scannedLines
    state,         \* _detectPdf: state (0 = ROOT, 10 = IN_OBJECT)
    pendingLine,   \* _detectPdf: pendingLine (Null when null)
    line,          \* _detectPdf: the line the loop body is working on
    dictText,      \* _detectPdf: dictText of the dictionary block just read
    streamInline,  \* _detectPdf: streamInline of that block
    objectInfo,    \* _detectPdf: objectInfo, the parsed dictionary
    payload,       \* _detectPdf: rawBytes, then decodedBytes / streamText
    outcome,       \* the call: "running", "returned" or "threw"
    result,        \* the value the call returned
    ending,        \* which return or throw statement ended the call
    hist           \* observations of the call, for the properties below

tokVars == <<data, tpos, nreads>>
rdVars == <<buf, pos, eof>>
drvVars == <<lastOp, out, prevRest, prevTpos>>
detVars == <<pc, maxScanLines, scannedLines, state, pendingLine, line, dictText,
             streamInline, objectInfo, payload, outcome, result, ending, hist>>
vars == <<data, tpos, nreads, buf, pos, eof, lastOp, out, prevRest, prevTpos,
          pc, maxScanLines, scannedLines, state, pendingLine, line, dictText,
          streamInline, objectInfo, payload, outcome, result, ending, hist>>

(***************************************************************************)
(* Bounds of the model.                                                    *)
(***************************************************************************)
\* PdfTokenizerReader's chunkSize option, scaled down so that one line or
\* one payload needs several fills.
ChunkSize == 3
\* Longest byte input of the reader harness.
MaxLen == 4

LF == "\n"
CR == "\r"

Min(a, b) == IF a < b THEN a ELSE b

Ch(s, i) == SubSeq(s, i, i)

\* The characters from..to of s (1-based, inclusive), cut to what s holds.
Slice(s, from, to) ==
    LET lo == IF from < 1 THEN 1 ELSE from
        hi == IF to > Len(s) THEN Len(s) ELSE to
    IN IF lo > hi THEN "" ELSE SubSeq(s, lo, hi)

\* String.prototype.indexOf / Buffer.indexOf: 0-based index of the first
\* occurrence of needle at or after from, -1 when there is none.
IndexOfFrom(hay, needle, from) ==
    LET lo == IF from < 0 THEN 0 ELSE from
        S == {i \in lo .. (Len(hay) - Len(needle)) :
                 SubSeq(hay, i + 1, i + Len(needle)) = needle}
    IN IF S = {} THEN -1 ELSE CHOOSE i \in S : \A j \in S : i <= j

IndexOf(hay, needle) == IndexOfFrom(hay, needle, 0)

Includes(hay, needle) == IndexOf(hay, needle) # -1

(***************************************************************************)
(* PdfTokenizerReader.  A reader value is the record                       *)
(* [buf, pos, eof, tpos, nreads]: the object's fields together with the    *)
(* position of the tokenizer it wraps and the reads issued on it since the *)
(* step began.                                                             *)
(***************************************************************************)
Reader == [buf |-> buf, pos |-> pos, eof |-> eof, tpos |-> tpos, nreads |-> 0]

\* tokenizer.peekBuffer(target, {length, mayBeLess: true}) through
\* peekMayBeLess: the number of bytes available, at most length.  At end of
\* stream the tokenizer returns 0 or throws EndOfStreamError, which
\* peekMayBeLess turns into 0.
PeekMayBeLess(tp, length) == Min(length, Len(data) - tp)

\* tokenizer.readBuffer(target, {length, mayBeLess: true}) through
\* readMayBeLess: with k the most the source hands out in one read, the
\* number of bytes read.
ReadMayBeLess(tp, length, k) == Min(k, Min(length, Len(data) - tp))

getPosition(r) == r.tpos - (Len(r.buf) - r.pos)

compactBuffer(r) ==
    IF r.pos > 0
    THEN [r EXCEPT !.buf = SubSeq(r.buf, r.pos + 1, Len(r.buf)), !.pos = 0]
    ELSE r

RECURSIVE fill(_, _, _)

\* A round of fill that takes the source to be past all it peeked, though
\* the read returned fewer bytes.
FillRound_SkipsPeeked(c, peeked, read, minBytes, k) ==
    IF peeked = 0 THEN [c EXCEPT !.eof = TRUE]
    ELSE IF read = 0 THEN [c EXCEPT !.eof = TRUE, !.nreads = @ + 1]
    ELSE fill([c EXCEPT !.buf = c.buf \o SubSeq(data, c.tpos + 1, c.tpos + read),
                        !.tpos = c.tpos + peeked,
                        !.nreads = @ + 1],
              minBytes, k)

\* One round of the loop of fill on the compacted reader c, the peek having
\* returned peeked and the read having returned read.
FillRound(c, peeked, read, minBytes, k) ==
    IF peeked = 0 THEN [c EXCEPT !.eof = TRUE]
    ELSE IF read = 0 THEN [c EXCEPT !.eof = TRUE, !.nreads = @ + 1]
    ELSE fill([c EXCEPT !.buf = c.buf \o SubSeq(data, c.tpos + 1, c.tpos + read),
                        !.tpos = c.tpos + read,
                        !.nreads = @ + 1],
              minBytes, k)

\* The read of one round: what readMayBeLess returns for what was peeked.
FillRead(c, peeked, minBytes, k) ==
    FillRound(c, peeked, IF peeked = 0 THEN 0 ELSE ReadMayBeLess(c.tpos, peeked, k),
              minBytes, k)

\* The peek of one round.
FillPeek(c, minBytes, k) == FillRead(c, PeekMayBeLess(c.tpos, ChunkSize), minBytes, k)

fill(r, minBytes, k) ==
    IF r.eof THEN r
    ELSE IF ~((Len(r.buf) - r.pos) < minBytes) THEN r
    ELSE FillPeek(compactBuffer(r), minBytes, k)

\* A line or a buffer, or null: [ok |-> FALSE] stands for null.  (n is
\* where the reader harness notes the argument of readBytes.)
Null == [ok |-> FALSE, v |-> "", n |-> 0]
Some(s) == [ok |-> TRUE, v |-> s, n |-> 0]

\* LineAt without "drop '\r'": the line keeps its carriage return.
LineAt_KeepsCr(r, idx) ==
    [r |-> [r EXCEPT !.pos = idx + 1], ret |-> Some(SubSeq(r.buf, r.pos + 1, idx))]

\* readLine, when buf holds a line feed at index idx.
LineAt(r, idx) ==
    LET lineBuf == SubSeq(r.buf, r.pos + 1, idx)
        n == Len(lineBuf)
    IN [r |-> [r EXCEPT !.pos = idx + 1],
        ret |-> Some(IF n > 0 /\ Ch(lineBuf, n) = CR THEN SubSeq(lineBuf, 1, n - 1)
                     ELSE lineBuf)]

RECURSIVE readLine(_, _)
\* readLine, after fill(before + 1) left the reader as f.
LineAfterFill(before, f, k) ==
    IF (Len(f.buf) - f.pos) = before /\ f.eof
    THEN IF before = 0
         THEN [r |-> f, ret |-> Null]
         ELSE [r |-> [f EXCEPT !.pos = Len(f.buf)],
               ret |-> Some(SubSeq(f.buf, f.pos + 1, Len(f.buf)))]
    ELSE readLine(f, k)

readLine(r, k) ==
    LET idx == IndexOfFrom(r.buf, LF, r.pos)
    IN IF idx # -1 THEN LineAt(r, idx)
       ELSE LineAfterFill(Len(r.buf) - r.pos, fill(r, Len(r.buf) - r.pos + 1, k), k)

\* BytesAfterFill that, short of n bytes, drops the bytes it has.
BytesAfterFill_Drains(f, n) ==
    IF (Len(f.buf) - f.pos) < n
    THEN [r |-> [f EXCEPT !.pos = Len(f.buf)], ret |-> Null]
    ELSE [r |-> [f EXCEPT !.pos = f.pos + n],
          ret |-> Some(SubSeq(f.buf, f.pos + 1, f.pos + n))]

\* readBytes(n), after fill(n) left the reader as f.
BytesAfterFill(f, n) ==
    IF (Len(f.buf) - f.pos) < n
    THEN [r |-> f, ret |-> Null]
    ELSE [r |-> [f EXCEPT !.pos = f.pos + n],
          ret |-> Some(SubSeq(f.buf, f.pos + 1, f.pos + n))]

\* readBytes(n) for n >= 0 (n < 0 throws before anything is read).
readBytes(r, n, k) ==
    IF n = 0 THEN [r |-> r, ret |-> Some("")]
    ELSE BytesAfterFill(fill(r, n, k), n)

\* consumeStreamEol that takes a carriage return alone, whatever follows.
EolAfterCr_CrOnly(g) == [g EXCEPT !.pos = g.pos + 1]

\* consumeStreamEol on a carriage return, after fill(2) left the reader as g.
EolAfterCr(g) ==
    IF (Len(g.buf) - g.pos) >= 2 /\ Ch(g.buf, g.pos + 2) = LF
    THEN [g EXCEPT !.pos = g.pos + 2]
    ELSE [g EXCEPT !.pos = g.pos + 1]

\* consumeStreamEol, after fill(1) left the reader as f.
EolAfterFill(f, k) ==
    IF (Len(f.buf) - f.pos) <= 0 THEN f
    ELSE IF Ch(f.buf, f.pos + 1) = CR THEN EolAfterCr(fill(f, 2, k))
    ELSE IF Ch(f.buf, f.pos + 1) = LF THEN [f EXCEPT !.pos = f.pos + 1]
    ELSE f

consumeStreamEol(r, k) == EolAfterFill(fill(r, 1, k), k)

(***************************************************************************)
(* Text helpers: the character classes of the regular expressions and the  *)
(* String methods the detector uses.                                       *)
(***************************************************************************)
Digits == {"0", "1", "2", "3", "4", "5", "6", "7", "8", "9"}
UpperLetters == "ABCDEFGHIJKLMNOPQRSTUVWXYZ"
LowerLetters == "abcdefghijklmnopqrstuvwxyz"
\* \w
WordChars ==
    Digits \cup {"_"} \cup {Ch(UpperLetters, i) : i \in 1 .. 26}
           \cup {Ch(LowerLetters, i) : i \in 1 .. 26}
\* \s, and what trim() strips (of the characters the inputs use)
Space == {" ", "\t", LF, CR}

MinOf(S) == CHOOSE i \in S : \A j \in S : i <= j
MaxOf(S) == CHOOSE i \in S : \A j \in S : i >= j

\* 1-based index of the first character at or after i that is not in class
\* (Len(s) + 1 when the run reaches the end): where a greedy class+ stops.
SpanEnd(s, i, class) ==
    LET S == {j \in i .. Len(s) : Ch(s, j) \notin class}
    IN IF S = {} THEN Len(s) + 1 ELSE MinOf(S)

\* The same for a negated class [^...].
SpanEndNot(s, i, class) ==
    LET S == {j \in i .. Len(s) : Ch(s, j) \in class}
    IN IF S = {} THEN Len(s) + 1 ELSE MinOf(S)

Trim(s) ==
    LET S == {j \in 1 .. Len(s) : Ch(s, j) \notin Space}
    IN IF S = {} THEN "" ELSE SubSeq(s, MinOf(S), MaxOf(S))

StartsWith(s, p) == Len(s) >= Len(p) /\ SubSeq(s, 1, Len(p)) = p

ToLowerCh(c) ==
    LET S == {i \in 1 .. 26 : Ch(UpperLetters, i) = c}
    IN IF S = {} THEN c ELSE Ch(LowerLetters, MinOf(S))

RECURSIVE ToLowerCase(_)
ToLowerCase(s) ==
    IF s = "" THEN "" ELSE ToLowerCh(Ch(s, 1)) \o ToLowerCase(SubSeq(s, 2, Len(s)))

\* OBJ_REGEX.exec(line) !== null for /^\s*(\d+)\s+(\d+)\s+obj\b/
OBJ_REGEX(l) ==
    LET a == SpanEnd(l, 1, Space)
        b == SpanEnd(l, a, Digits)
        c == SpanEnd(l, b, Space)
        d == SpanEnd(l, c, Digits)
        e == SpanEnd(l, d, Space)
    IN /\ b > a /\ c > b /\ d > c /\ e > d
       /\ Slice(l, e, e + 2) = "obj"
       /\ (e + 3 > Len(l) \/ Ch(l, e + 3) \notin WordChars)

\* parseInt(s, 10): optional leading white space, optional sign, then the
\* longest run of digits; NaN ([ok |-> FALSE]) when there is no digit.
RECURSIVE DigitsValue(_, _)
DigitsValue(s, acc) ==
    IF s = "" THEN acc
    ELSE DigitsValue(SubSeq(s, 2, Len(s)),
                     10 * acc + (MinOf({n \in 0 .. 9 : Ch("0123456789", n + 1) = Ch(s, 1)})))

parseInt(s) ==
    LET a == SpanEnd(s, 1, Space)
        neg == a <= Len(s) /\ Ch(s, a) = "-"
        b == IF a <= Len(s) /\ Ch(s, a) \in {"-", "+"} THEN a + 1 ELSE a
        c == SpanEnd(s, b, Digits)
    IN IF c = b THEN [ok |-> FALSE, n |-> 0]
       ELSE LET v == DigitsValue(SubSeq(s, b, c - 1), 0)
            IN [ok |-> TRUE, n |-> IF neg THEN 0 - v ELSE v]

(***************************************************************************)
(* Dictionaries.  A Dict is a function from keys to values; a value is     *)
(* the flag true or a string.  Undefined stands for a missing key.         *)
(***************************************************************************)
True == [kind |-> "true", s |-> ""]
Str(s) == [kind |-> "string", s |-> s]
Undefined == [kind |-> "undefined", s |-> ""]
EmptyDict == [k \in {} |-> Undefined]

Get(d, k) == IF k \in DOMAIN d THEN d[k] ELSE Undefined
Put(d, k, v) == [x \in (DOMAIN d) \cup {k} |-> IF x = k THEN v ELSE d[x]]
\* JavaScript truthiness of a DictValue | undefined
Truthy(v) == v.kind = "true" \/ (v.kind = "string" /\ v.s # "")

\* The characters [^/>\n\r] excludes.
ValueStop == {"/", ">", LF, CR}

\* The loop of parseDictFromRaw: dictRegex.exec from lastIndex i (1-based)
\* for /\/(\w+)(?:\s+([^/>\n\r]+))?/g.  After the key, \s+ takes the longest
\* run of white space that still leaves a first value character outside
\* ValueStop; with none, the optional group does not take part.
RECURSIVE ParseDictFrom(_, _, _)
ParseDictFrom(raw, i, info) ==
    LET S == {j \in i .. Len(raw) - 1 : Ch(raw, j) = "/" /\ Ch(raw, j + 1) \in WordChars}
    IN IF S = {} THEN info
       ELSE LET j == MinOf(S)
                ke == SpanEnd(raw, j + 1, WordChars)
                key == SubSeq(raw, j + 1, ke - 1)
                we == SpanEnd(raw, ke, Space)
                T == {t \in 1 .. (we - ke) :
                         ke + t <= Len(raw) /\ Ch(raw, ke + t) \notin ValueStop}
            IN IF T = {}
               THEN ParseDictFrom(raw, ke, Put(info, key, True))
               ELSE LET vs == ke + MaxOf(T)
                        ve == SpanEndNot(raw, vs, ValueStop)
                    IN ParseDictFrom(raw, ve, Put(info, key, Str(Trim(SubSeq(raw, vs, ve - 1)))))

parseDictFromRaw(raw) == ParseDictFrom(raw, 1, EmptyDict)

(***************************************************************************)
(* Stream filters.                                                         *)
(***************************************************************************)
FilterNames == <<"FlateDecode", "ASCII85Decode", "LZWDecode", "RunLengthDecode">>

\* String(filterValue).match(/FlateDecode|ASCII85Decode|LZWDecode|RunLengthDecode/g)
RECURSIVE MatchFilters(_, _)
MatchFilters(s, i) ==
    LET S == {j \in i .. Len(s) :
                 \E f \in 1 .. 4 : Slice(s, j, j + Len(FilterNames[f]) - 1) = FilterNames[f]}
    IN IF S = {} THEN <<>>
       ELSE LET j == MinOf(S)
                f == MinOf({g \in 1 .. 4 :
                               Slice(s, j, j + Len(FilterNames[g]) - 1) = FilterNames[g]})
            IN <<FilterNames[f]>> \o MatchFilters(s, j + Len(FilterNames[f]))

\* [...new Set(names)]: first occurrences, in order
RECURSIVE Dedupe(_)
Dedupe(names) ==
    IF names = <<>> THEN <<>>
    ELSE LET init == Dedupe(SubSeq(names, 1, Len(names) - 1))
             last == names[Len(names)]
         IN IF \E i \in 1 .. Len(init) : init[i] = last THEN init ELSE Append(init, last)

normalizeFilters(filterValue) ==
    IF ~Truthy(filterValue) \/ filterValue.kind = "true" THEN <<>>
    ELSE Dedupe(MatchFilters(filterValue.s, 1))

\* inflateWithFormat: the decompression capability (DecompressionStream) is
\* outside the repository.  Stand-in codec: a zlib-wrapped stream is "Z"
\* followed by its content, a raw deflate stream is "R" followed by its
\* content, and anything else is rejected by both formats.
inflateWithFormat(format, d) ==
    LET mark == IF format = "deflate" THEN "Z" ELSE "R"
    IN IF Len(d) > 0 /\ Ch(d, 1) = mark
       THEN [ok |-> TRUE, v |-> SubSeq(d, 2, Len(d)), tried |-> <<format>>]
       ELSE [ok |-> FALSE, v |-> "", tried |-> <<format>>]

\* inflateFlateDecode with the two attempts in the other order.
inflateFlateDecode_RawFirst(d) ==
    LET first == inflateWithFormat("deflate-raw", d)
    IN IF first.ok THEN first
       ELSE LET second == inflateWithFormat("deflate", d)
            IN [second EXCEPT !.tried = first.tried \o @]

\* [ok, v, tried]: ok FALSE when the call rejects (throws); tried lists the
\* formats attempted, in order.
inflateFlateDecode(d) ==
    LET first == inflateWithFormat("deflate", d)
    IN IF first.ok THEN first
       ELSE LET second == inflateWithFormat("deflate-raw", d)
            IN [second EXCEPT !.tried = first.tried \o @]

RECURSIVE DecodeLoop(_, _, _, _, _)
DecodeLoop(filters, i, outBytes, rawBytes, tried) ==
    IF i > Len(filters) THEN [ok |-> TRUE, v |-> outBytes, tried |-> tried]
    ELSE IF filters[i] = "FlateDecode"
    THEN LET r == inflateFlateDecode(outBytes)
         IN IF r.ok THEN DecodeLoop(filters, i + 1, r.v, rawBytes, tried \o r.tried)
            ELSE [ok |-> FALSE, v |-> "", tried |-> tried \o r.tried]
    ELSE [ok |-> TRUE, v |-> rawBytes, tried |-> tried]

decodeStreamBytes(info, rawBytes) ==
    LET filters == normalizeFilters(Get(info, "Filter"))
    IN IF Len(filters) = 0 THEN [ok |-> TRUE, v |-> rawBytes, tried |-> <<>>]
       ELSE DecodeLoop(filters, 1, rawBytes, rawBytes, <<>>)

(***************************************************************************)
(* readDictionaryBlock and the header sniffer.                             *)
(***************************************************************************)
\* The accumulation loop of readDictionaryBlock: [r, raw, n] with n the
\* number of lines read from the reader.
RECURSIVE AccumulateDict(_, _, _, _)
\* The loop body, next being what reader.readLine() returned.
AccumulateNext(next, raw, n, k) ==
    IF ~next.ret.ok THEN [r |-> next.r, raw |-> raw, n |-> n]
    ELSE AccumulateDict(next.r, raw \o LF \o next.ret.v, n + 1, k)

AccumulateDict(r, raw, n, k) ==
    IF Includes(raw, ">>") THEN [r |-> r, raw |-> raw, n |-> n]
    ELSE AccumulateNext(readLine(r, k), raw, n, k)

\* readDictionaryBlock after its loop: start and end are the indices of "<<"
\* and of the first ">>" after it.  dictText is Null for dictText: null.
DictionaryBlockAt(acc, start, end) ==
    IF start = -1 \/ end = -1
    THEN [r |-> acc.r, n |-> acc.n, dictText |-> Null, streamInline |-> FALSE]
    ELSE [r |-> acc.r, n |-> acc.n,
          dictText |-> Some(Trim(Slice(acc.raw, start + 3, end))),
          streamInline |-> \/ Trim(Slice(acc.raw, end + 3, Len(acc.raw))) = "stream"
                           \/ StartsWith(Trim(Slice(acc.raw, end + 3, Len(acc.raw))),
                                         "stream ")]

DictionaryBlockOf(acc) ==
    DictionaryBlockAt(acc, IndexOf(acc.raw, "<<"),
                      IndexOfFrom(acc.raw, ">>", IndexOf(acc.raw, "<<") + 2))

readDictionaryBlock(r, firstLine, k) == DictionaryBlockOf(AccumulateDict(r, firstLine, 0, k))

PDF_SIGNATURE == "%PDF-"
\* The size of the window peekPdfHeader peeks.
PEEK_WINDOW == 1024
\* The size of the scratch buffer of skipBytes.
SKIP_CHUNK == 65536

indexOfBytes(hay, needle) ==
    IF Len(needle) = 0 THEN 0 ELSE IndexOf(hay, needle)

\* HeaderIn over a window that was read, not peeked, when it holds no
\* signature.
HeaderIn_Reading(tp, n) ==
    IF n = 0 \/ indexOfBytes(SubSeq(data, tp + 1, tp + n), PDF_SIGNATURE) = -1
    THEN [isPdf |-> FALSE, headerOffset |-> -1, tpos |-> tp + n, nreads |-> 1]
    ELSE [isPdf |-> TRUE,
          headerOffset |-> indexOfBytes(SubSeq(data, tp + 1, tp + n), PDF_SIGNATURE),
          tpos |-> tp, nreads |-> 0]

\* peekPdfHeader once peekBuffer returned n bytes (0 too when it threw): the
\* answer, with the position of the tokenizer and the reads issued on it.
HeaderIn(tp, n) ==
    IF n = 0 \/ indexOfBytes(SubSeq(data, tp + 1, tp + n), PDF_SIGNATURE) = -1
    THEN [isPdf |-> FALSE, headerOffset |-> -1, tpos |-> tp, nreads |-> 0]
    ELSE [isPdf |-> TRUE,
          headerOffset |-> indexOfBytes(SubSeq(data, tp + 1, tp + n), PDF_SIGNATURE),
          tpos |-> tp, nreads |-> 0]

\* peekPdfHeader with the tokenizer at tp: peekBuffer(buf, {length: 1024,
\* mayBeLess: true}) leaves the position where it is; when it throws, n
\* stays 0.
peekPdfHeader(tp, threw) ==
    HeaderIn(tp, IF threw THEN 0 ELSE Min(PEEK_WINDOW, Len(data) - tp))

\* skipBytes(tokenizer, n): [tpos, nreads, ok] after the loop, ok FALSE when
\* it throws "Unexpected EOF while skipping bytes".  readBuffer without
\* mayBeLess reads exactly len bytes or throws at end of stream.
RECURSIVE SkipLoop(_, _, _, _)
SkipLoop(tp, left, tmpLength, nr) ==
    IF ~(left > 0) THEN [tpos |-> tp, nreads |-> nr, ok |-> TRUE]
    ELSE LET len == Min(tmpLength, left)
         IN IF Len(data) - tp < len THEN [tpos |-> tp, nreads |-> nr + 1, ok |-> FALSE]
            ELSE SkipLoop(tp + len, left - len, tmpLength, nr + 1)

skipBytes(tp, n) ==
    IF n <= 0 THEN [tpos |-> tp, nreads |-> 0, ok |-> TRUE]
    ELSE SkipLoop(tp, n, Min(SKIP_CHUNK, n), 0)

(***************************************************************************)
(* Subtype probes.                                                         *)
(***************************************************************************)
PDF_TYPE == [ext |-> "pdf", mime |-> "application/pdf"]
AI_TYPE == [ext |-> "ai", mime |-> "application/illustrator"]
\* No FileTypeResult: what a hook returns for "no opinion", what detect
\* returns for "not a PDF".
NoType == [ext |-> "", mime |-> ""]

\* onDict without the Producer test.
IllustratorOnDict_NoProducer(text, dict) ==
    LET creator == Get(dict, "Creator")
    IN IF Get(dict, "Illustrator").kind = "true" THEN AI_TYPE
       ELSE IF Includes(text, "/Illustrator") THEN AI_TYPE
       ELSE IF Truthy(creator) /\ creator.kind # "true" /\ Includes(creator.s, "Illustrator")
       THEN AI_TYPE
       ELSE IF Includes(text, "Adobe Illustrator") THEN AI_TYPE
       ELSE NoType

\* createIllustratorProbe().onDict
IllustratorOnDict(text, dict) ==
    LET creator == Get(dict, "Creator")
        producer == Get(dict, "Producer")
    IN IF Get(dict, "Illustrator").kind = "true" THEN AI_TYPE
       ELSE IF Includes(text, "/Illustrator") THEN AI_TYPE
       ELSE IF Truthy(creator) /\ creator.kind # "true" /\ Includes(creator.s, "Illustrator")
       THEN AI_TYPE
       ELSE IF Truthy(producer) /\ producer.kind # "true" /\ Includes(producer.s, "Illustrator")
       THEN AI_TYPE
       ELSE IF Includes(text, "Adobe Illustrator") THEN AI_TYPE
       ELSE NoType

\* createIllustratorProbe().onCreatorTool
IllustratorOnCreatorTool(creatorTool) ==
    IF Includes(ToLowerCase(creatorTool), "illustrator") THEN AI_TYPE ELSE NoType

\* createIllustratorProbe().onStreamText
IllustratorOnStreamText(streamText) ==
    IF Includes(streamText, "Adobe Illustrator") THEN AI_TYPE ELSE NoType

\* The probes, in declaration order; each with the hooks it implements.
subtypeProbes ==
    <<[name |-> "adobe-illustrator", hooks |-> {"onDict", "onCreatorTool", "onStreamText"}]>>

\* One hook of one probe.
CallHook(probe, hook, text, dict) ==
    IF probe.name = "adobe-illustrator"
    THEN CASE hook = "onDict" -> IllustratorOnDict(text, dict)
           [] hook = "onCreatorTool" -> IllustratorOnCreatorTool(text)
           [] hook = "onStreamText" -> IllustratorOnStreamText(text)
    ELSE NoType

\* for (const probe of subtypeProbes) { if (!probe[hook]) continue;
\*   const hit = probe[hook](...); if (hit) return hit; }
\* [hit, calls]: the first hit (NoType when none) and the hooks invoked, each
\* with what it was given and what it returned.
RECURSIVE RunProbes(_, _, _, _, _)
\* if (hit) return hit, hit being what probe i returned
HookCall(i, hook, text, dict, ret) ==
    [probe |-> i, name |-> subtypeProbes[i].name, hook |-> hook, text |-> text,
     dict |-> dict, ret |-> ret]

ProbeCalled(hook, i, text, dict, calls, hit) ==
    IF hit # NoType
    THEN [hit |-> hit, calls |-> Append(calls, HookCall(i, hook, text, dict, hit))]
    ELSE RunProbes(hook, i + 1, text, dict, Append(calls, HookCall(i, hook, text, dict, hit)))

RunProbes(hook, i, text, dict, calls) ==
    IF i > Len(subtypeProbes) THEN [hit |-> NoType, calls |-> calls]
    ELSE IF hook \notin subtypeProbes[i].hooks THEN RunProbes(hook, i + 1, text, dict, calls)
    ELSE ProbeCalled(hook, i, text, dict, calls, CallHook(subtypeProbes[i], hook, text, dict))

\* creatorToolListeners.length
HasCreatorToolListeners == \E i \in 1 .. Len(subtypeProbes) : "onCreatorTool" \in subtypeProbes[i].hooks

(***************************************************************************)
(* The reader on its own: any sequence of readLine, readBytes and          *)
(* consumeStreamEol calls on a reader constructed over an arbitrary short  *)
(* byte input, the source handing out at most k bytes per read.            *)
(***************************************************************************)
\* The unconsumed input: buffered-but-unconsumed bytes, then the unread
\* bytes of the source.
Rest(r) == SubSeq(r.buf, r.pos + 1, Len(r.buf)) \o SubSeq(data, r.tpos + 1, Len(data))

ReaderAlphabet == {"a", LF, CR}

RECURSIVE Strings(_)
Strings(n) ==
    IF n = 0 THEN {""}
    ELSE LET S == Strings(n - 1)
         IN S \cup {s \o c : s \in {t \in S : Len(t) = n - 1}, c \in ReaderAlphabet}

InitReader ==
    /\ data \in Strings(MaxLen)
    /\ tpos \in 0 .. Min(1, Len(data))
    /\ nreads = 0
    /\ buf = "" /\ pos = 0 /\ eof = FALSE
    /\ lastOp = "new" /\ out = Null
    /\ prevRest = SubSeq(data, tpos + 1, Len(data))
    /\ prevTpos = tpos
    /\ pc = "reader" /\ maxScanLines = 0 /\ scannedLines = 0 /\ state = 0
    /\ pendingLine = Null /\ line = "" /\ dictText = "" /\ streamInline = FALSE
    /\ objectInfo = <<>> /\ payload = "" /\ outcome = "running"
    /\ result = <<>> /\ ending = "" /\ hist = <<>>

SetReader(r) ==
    /\ buf' = r.buf /\ pos' = r.pos /\ eof' = r.eof
    /\ tpos' = r.tpos /\ nreads' = r.nreads
    /\ data' = data

Called(op) ==
    /\ lastOp' = op
    /\ prevRest' = Rest(Reader)
    /\ prevTpos' = tpos

Returned(op, res, ret) ==
    /\ SetReader(res)
    /\ out' = ret
    /\ Called(op)
    /\ UNCHANGED detVars

LineRead(res) == Returned("readLine", res.r, res.ret)

ReadLineOp == \E k \in 1 .. ChunkSize : LineRead(readLine(Reader, k))

BytesRead(n, res) == Returned("readBytes", res.r, [res.ret EXCEPT !.n = n])

ReadBytesOp ==
    \E k \in 1 .. ChunkSize, n \in 0 .. MaxLen + 1 : BytesRead(n, readBytes(Reader, n, k))

ConsumeStreamEolOp ==
    \E k \in 1 .. ChunkSize : Returned("consumeStreamEol", consumeStreamEol(Reader, k), Null)

NextReader == ReadLineOp \/ ReadBytesOp \/ ConsumeStreamEolOp

SpecReader == InitReader /\ [][NextReader]_vars

(***************************************************************************)
(* XmlHandler.  The sax parser is outside the repository: what it emits    *)
(* for a text is a run of events, each one of                              *)
(*   [t |-> "open", uri, local, name]   onopentag                          *)
(*   [t |-> "text", text]               ontext                             *)
(*   [t |-> "close"]                    onclosetag                         *)
(*   [t |-> "error", msg]               onerror                            *)
(***************************************************************************)
XAP_NS == "http://ns.adobe.com/xap/1.0/"

Open(uri, local, name) == [t |-> "open", uri |-> uri, local |-> local, name |-> name, text |-> ""]
Text(text) == [t |-> "text", uri |-> "", local |-> "", name |-> "", text |-> text]
Close == [t |-> "close", uri |-> "", local |-> "", name |-> "", text |-> ""]
Error(msg) == [t |-> "error", uri |-> "", local |-> "", name |-> "", text |-> msg]

EndsWith(s, p) == Len(s) >= Len(p) /\ SubSeq(s, Len(s) - Len(p) + 1, Len(s)) = p

\* saxParser.onopentag: the new value of readingCreatorTool
OnOpenTag(tag) ==
    LET isCreatorTool == tag.uri = XAP_NS /\ tag.local = "CreatorTool"
        nameMatch == \/ tag.name = "xap:CreatorTool"
                     \/ EndsWith(tag.name, ":CreatorTool")
                     \/ tag.name = "CreatorTool"
    IN isCreatorTool \/ nameMatch

\* onerror that clears every error and resumes.
OnErrorResumes_Always(msg) == TRUE

\* saxParser.onerror: TRUE when the error is cleared and parsing resumes,
\* FALSE when it is thrown.
OnErrorResumes(msg) == StartsWith(msg, "Invalid character entity")

\* xml.write(streamText); xml.close() over the events sax emits, from event
\* i with readingCreatorTool = reading.  [kind, hit, delivered, calls, seen]:
\* kind "ok" (both calls returned), "hit" (a creator-tool hook returned hit,
\* thrown out of the feed) or "error" (an Error thrown out of the feed);
\* delivered lists the texts handed to onCreatorTool, calls the hooks
\* invoked, seen the number of events the handlers received.
RECURSIVE XmlFeed(_, _, _, _, _)
\* ontext that leaves readingCreatorTool set after delivering the text.
CreatorToolText_KeepsReading(events, i, delivered, p) ==
    IF p.hit # NoType
    THEN [kind |-> "hit", hit |-> p.hit, delivered |-> delivered, calls |-> p.calls,
          seen |-> i]
    ELSE XmlFeed(events, i + 1, TRUE, delivered, p.calls)

\* onCreatorTool: (v) => { for (const fn of creatorToolListeners) { const hit =
\* fn(ctx, v); if (hit) throw hit; } }, then readingCreatorTool = false
CreatorToolText(events, i, delivered, p) ==
    IF p.hit # NoType
    THEN [kind |-> "hit", hit |-> p.hit, delivered |-> delivered, calls |-> p.calls,
          seen |-> i]
    ELSE XmlFeed(events, i + 1, FALSE, delivered, p.calls)

XmlFeed(events, i, reading, delivered, calls) ==
    IF i > Len(events)
    THEN [kind |-> "ok", hit |-> NoType, delivered |-> delivered, calls |-> calls, seen |-> i - 1]
    ELSE LET e == events[i]
         IN CASE e.t = "open" -> XmlFeed(events, i + 1, OnOpenTag(e), delivered, calls)
              [] e.t = "close" -> XmlFeed(events, i + 1, FALSE, delivered, calls)
              [] e.t = "error" ->
                    IF OnErrorResumes(e.text)
                    THEN XmlFeed(events, i + 1, reading, delivered, calls)
                    ELSE [kind |-> "error", hit |-> NoType, delivered |-> delivered,
                          calls |-> calls, seen |-> i]
              [] e.t = "text" ->
                    IF ~reading THEN XmlFeed(events, i + 1, reading, delivered, calls)
                    ELSE CreatorToolText(events, i, Append(delivered, e.text),
                                         RunProbes("onCreatorTool", 1, e.text, EmptyDict, calls))

\* The event runs the parser may emit for a metadata stream.
SaxRuns ==
    { <<>>,
      <<Open("adobe:ns:meta/", "xmpmeta", "x:xmpmeta"),
        Open(XAP_NS, "CreatorTool", "xmp:CreatorTool"),
        Text("Adobe Illustrator 25.0 (Windows)"), Close, Close>>,
      <<Open(XAP_NS, "CreatorTool", "xmp:CreatorTool"), Text("Acrobat"), Close,
        Open("", "CreatorTool", "CreatorTool"), Text("ILLUSTRATOR CS"), Close,
        Open("", "Title", "Title"), Text("never seen"), Close>>,
      <<Open("", "Title", "Title"), Text("Adobe Illustrator"), Close,
        Open("", "CreatorTool", "xap:CreatorTool"), Close, Text("Adobe Illustrator")>>,
      <<Open("", "CreatorTool", "pdf:CreatorTool"), Open("", "b", "b"),
        Text("Adobe Illustrator"), Close, Close>>,
      <<Error("Invalid character entity"), Open(XAP_NS, "CreatorTool", "xmp:CreatorTool"),
        Text("illustrator"), Close>>,
      <<Open(XAP_NS, "CreatorTool", "xmp:CreatorTool"), Text("Inkscape"), Text("Illustrator"),
        Close, Error("Unclosed root tag")>>,
      <<Error("Unexpected close tag"), Open(XAP_NS, "CreatorTool", "xmp:CreatorTool"),
        Text("Adobe Illustrator"), Close>> }

\* textDecode(bytes, 'utf-8'): on the ASCII bytes of the inputs, each byte
\* is the character it encodes.
textDecode(bytes) == bytes

(***************************************************************************)
(* The inputs of detect.                                                   *)
(***************************************************************************)
RECURSIVE Pad(_)
Pad(n) ==
    IF n = 0 THEN "" ELSE IF n = 1 THEN "x" ELSE Pad(n \div 2) \o Pad(n - (n \div 2))

Header == "%PDF-1.1"

\* Largest scan budget tried besides the default.
MaxBudget == 4

\* n object-start lines and nothing else.
RECURSIVE ObjLines(_)
ObjLines(n) == IF n = 0 THEN "" ELSE ObjLines(n - 1) \o "\n7 0 obj"

\* What follows the header.
Bodies ==
    { "",
      "\n1 0 obj\n<< /Illustrator >>\nendobj\n",
      "\n1 0 obj << /Illustrator >>\nendobj\n",
      "\r\n1 0 obj\r\n<<\r\n/Creator (Adobe Illustrator)\r\n>>\r\nendobj\r\n",
      "\n1 0 obj\n<< /Length 5 >>\nstream\nhello\nendstream\nendobj\n",
      "\n1 0 obj\n<< /Length 17 >> stream\nAdobe Illustrator\nendstream\nendobj\n",
      "\n2 0 obj\n<< /Type /Catalog >>\nendobj\n3 0 obj\n<< /Producer (Illustrator) >>\nendobj\n",
      "\n1 0 obj\n<< /Length 5 >>\n<< /Illustrator >>\nendobj\n",
      "\n1 0 obj\n<< /Filter FlateDecode /Length 18 >>\nstream\nZAdobe Illustrator\nendstream\n",
      "\n1 0 obj\n<< /Filter /FlateDecode /Length 18 >>\nstream\nZAdobe Illustrator\nendstream\n",
      "\n1 0 obj\n<< /Filter [/FlateDecode] /Length 3 >>\nstream\nZab\nendstream\n",
      "\n1 0 obj\n<< /Filter FlateDecode /Length 3 >>\nstream\nRab\nendstream\nendobj\n",
      "\n1 0 obj\n<< /Filter FlateDecode /Length 3 >>\nstream\nabc\nendstream\nendobj\n",
      "\n1 0 obj\n<< /Filter [ASCII85Decode FlateDecode] /Length 3 >>\nstream\nabc\nendstream\n",
      "\n1 0 obj\n<< /Filter [FlateDecode LZWDecode] /Length 3 >>\nstream\nabc\nendstream\n",
      "\n1 0 obj\n<< /Filter [FlateDecode RunLengthDecode] /Length 3 >>\nstream\nZbc\nendstream\n",
      "\n1 0 obj\n<< /Type /Metadata /Subtype /XML /Length 3 >>\nstream\nxml\nendstream\nendobj\n",
      "\n1 0 obj\n<< /Type /Metadata /Length 3 >>\nstream\nxml\nendstream\nendobj\n",
      "\n1 0 obj\n<< /Length 12 0 R >>\nstream\nAdobe Illustrator\nendstream\nendobj\n",
      "\n1 0 obj\n<<\n/A 1\n/B 2\n/Illustrator\n",
      "\n1 0 obj\n<< /Length 99 >>\nstream\nabc",
      ObjLines(MaxBudget + 1) \o "\n",
      ObjLines(2),
      "\n1 0 obj\n<< /A 1 >>",
      "\n1 0 obj\n<< /Length 3 >>\nstream\r\n\nab\nendstream\nendobj\n2 0 obj\n<< /Illustrator >>\n",
      "\ntrailer\n<< /Illustrator >>\n",
      "\n1 0 obj\n<< /Length -1 >>\nstream\n<< /Length x >>\nstream\n<< /Length >>\nstream\n",
      "\n 12  0 obj\n1 0 objx\nendobj\n<< /Illustrator >>\n",
      "\n1 0 obj\n<< >>\n<< /A << /B 1 >> /Creator (Adobe Illustrator) >>\n" }

\* Inputs with the signature: at offset 0, after a short preamble, twice,
\* and with the signature ending exactly at the end of the peek window.
PdfDocs ==
    {Header \o b : b \in Bodies}
      \cup {"xx" \o Header \o "\n1 0 obj\n<< /Illustrator >>\nendobj\n",
            "ab%PDF-1.4\n%PDF-1.1\n",
            Pad(PEEK_WINDOW - 5) \o Header \o "\n1 0 obj\n<< /Illustrator >>\n"}

\* Inputs without the signature in the window.
OtherDocs ==
    { "", "abc", "%PDF", "hello world\n",
      "%PDX-1.1\n1 0 obj\n<< /Illustrator >>\nendobj\n",
      Pad(PEEK_WINDOW - 4) \o Header \o "\n1 0 obj\n<< /Illustrator >>\n" }

Docs == PdfDocs \cup OtherDocs

DEFAULT_MAX_SCAN_LINES == 50000
\* Largest tokenizer position the call starts at.
MaxStart == 1

\* What the properties observe of a call: the loop bodies entered, the
\* lines the reader returned, the hooks invoked, the raw bytes and inflate
\* attempts of the last stream decoded, the events of the last XML feed with
\* the number the handlers received and the texts handed to onCreatorTool,
\* whether the header peek threw, and the position of the reader when the
\* last stream read began.
NoHist ==
    [iterations |-> 0, linesRead |-> 0, calls |-> <<>>, raw |-> "", tried |-> <<>>,
     events |-> <<>>, seen |-> 0, delivered |-> <<>>, peekThrew |-> FALSE,
     streamAt |-> 0]

Init ==
    /\ \E d \in Docs, s \in 0 .. MaxStart : data = Pad(s) \o d /\ tpos = s
    /\ nreads = 0
    /\ buf = "" /\ pos = 0 /\ eof = FALSE
    /\ lastOp = "new" /\ out = Null /\ prevRest = "" /\ prevTpos = tpos
    /\ pc = "start"
    /\ maxScanLines \in (0 .. MaxBudget) \cup {DEFAULT_MAX_SCAN_LINES}
    /\ scannedLines = 0 /\ state = 0 /\ pendingLine = Null
    /\ line = "" /\ dictText = "" /\ streamInline = FALSE
    /\ objectInfo = EmptyDict /\ payload = ""
    /\ outcome = "running" /\ result = NoType /\ ending = ""
    /\ hist = NoHist

(***************************************************************************)
(* _detectPdf, step by step.                                               *)
(***************************************************************************)
Return(value, how) ==
    pc' = "done" /\ outcome' = "returned" /\ result' = value /\ ending' = how
Throw(how) == pc' = "done" /\ outcome' = "threw" /\ result' = NoType /\ ending' = how
Goto(label) == pc' = label /\ UNCHANGED <<outcome, result, ending>>

\* const readLine = async () => ...: the pending line if there is one, else
\* the reader's next line.  [r, ret, pending, n]: n counts the lines the
\* reader returned.
FromReader(res) ==
    [r |-> res.r, ret |-> res.ret, pending |-> pendingLine, n |-> IF res.ret.ok THEN 1 ELSE 0]

ReadLineWrapper(k) ==
    IF pendingLine.ok
    THEN [r |-> Reader, ret |-> pendingLine, pending |-> Null, n |-> 0]
    ELSE FromReader(readLine(Reader, k))

\* _detectPdf once peekPdfHeader returned h and, for a PDF, skipBytes sk.
Started(h, sk) ==
    /\ IF ~h.isPdf THEN Return(NoType, "not a PDF")
       ELSE IF sk.ok THEN Goto("loop")
       ELSE Throw("skipBytes")
    /\ tpos' = IF h.isPdf THEN sk.tpos ELSE h.tpos
    /\ nreads' = IF h.isPdf THEN h.nreads + sk.nreads ELSE h.nreads

\* _detectPdf without the skipBytes call.
SkipHeader_Never(h) == [tpos |-> h.tpos, nreads |-> 0, ok |-> TRUE]

SkipHeader(h) ==
    IF h.isPdf /\ h.headerOffset > 0 THEN skipBytes(h.tpos, h.headerOffset)
    ELSE [tpos |-> h.tpos, nreads |-> 0, ok |-> TRUE]

StartWith(h) == Started(h, SkipHeader(h))

\* peekPdfHeader; not a PDF: return undefined; else skipBytes and
\* new PdfTokenizerReader(tokenizer).  With no byte to peek at, the
\* tokenizer returns 0 or throws an end-of-stream error.
DetectStart ==
    /\ pc = "start"
    /\ \E threw \in BOOLEAN :
          /\ threw => (Len(data) - tpos = 0)
          /\ hist' = [hist EXCEPT !.peekThrew = threw]
          /\ StartWith(peekPdfHeader(tpos, threw))
    /\ buf' = "" /\ pos' = 0 /\ eof' = FALSE
    /\ UNCHANGED <<data, drvVars, maxScanLines, scannedLines, state, pendingLine,
                   line, dictText, streamInline, objectInfo, payload>>

\* The loop test with <= for <.
LoopTest_Inclusive(n, max) == n <= max

\* scannedLines++ < maxScanLines
LoopTest(n, max) == n < max

\* The loop body without "continue" at the end of the ROOT branch: a line
\* that is no object header falls through to the IN_OBJECT handling.
Scanned_FallsThrough(res) ==
    /\ SetReader(res.r)
    /\ pendingLine' = res.pending
    /\ hist' = [hist EXCEPT !.iterations = @ + 1, !.linesRead = @ + res.n]
    /\ IF ~res.ret.ok
       THEN Return(PDF_TYPE, "no more lines") /\ UNCHANGED <<state, line>>
       ELSE /\ line' = res.ret.v
            /\ IF state = 0 /\ OBJ_REGEX(res.ret.v)
               THEN state' = 10 /\ Goto("loop")
               ELSE IF state = 10 /\ Trim(res.ret.v) = "endobj"
               THEN state' = 0 /\ Goto("loop")
               ELSE IF ~Includes(res.ret.v, "<<")
               THEN Goto("loop") /\ UNCHANGED state
               ELSE Goto("dict") /\ UNCHANGED state

\* The loop body from the line res.ret on, up to readDictionaryBlock.
Scanned(res) ==
    /\ SetReader(res.r)
    /\ pendingLine' = res.pending
    /\ hist' = [hist EXCEPT !.iterations = @ + 1, !.linesRead = @ + res.n]
    /\ IF ~res.ret.ok
       THEN Return(PDF_TYPE, "no more lines") /\ UNCHANGED <<state, line>>
       ELSE /\ line' = res.ret.v
            /\ IF state = 0
               THEN /\ state' = IF OBJ_REGEX(res.ret.v) THEN 10 ELSE state
                    /\ Goto("loop")
               ELSE IF Trim(res.ret.v) = "endobj"
               THEN state' = 0 /\ Goto("loop")
               ELSE IF ~Includes(res.ret.v, "<<")
               THEN Goto("loop") /\ UNCHANGED state
               ELSE Goto("dict") /\ UNCHANGED state

\* while (scannedLines++ < maxScanLines) { const line = await readLine(); ...
ScanLine ==
    /\ pc = "loop"
    /\ scannedLines' = scannedLines + 1
    /\ IF ~LoopTest(scannedLines, maxScanLines)
       THEN /\ Return(PDF_TYPE, "budget")
            /\ nreads' = 0
            /\ UNCHANGED <<data, tpos, rdVars, state, pendingLine, line, hist>>
       ELSE \E k \in 1 .. ChunkSize : Scanned(ReadLineWrapper(k))
    /\ UNCHANGED <<drvVars, maxScanLines, dictText, streamInline, objectInfo, payload>>

\* if (!dictText) continue; objectInfo = parseDictFromRaw(dictText)
DictRead(rb) ==
    /\ SetReader(rb.r)
    /\ hist' = [hist EXCEPT !.linesRead = @ + rb.n]
    /\ IF ~rb.dictText.ok \/ rb.dictText.v = ""
       THEN Goto("loop") /\ UNCHANGED <<dictText, streamInline, objectInfo>>
       ELSE /\ Goto("dprobe")
            /\ dictText' = rb.dictText.v
            /\ streamInline' = rb.streamInline
            /\ objectInfo' = parseDictFromRaw(rb.dictText.v)

\* const { dictText, streamInline } = await readDictionaryBlock(reader, line)
ReadDict ==
    /\ pc = "dict"
    /\ \E k \in 1 .. ChunkSize : DictRead(readDictionaryBlock(Reader, line, k))
    /\ UNCHANGED <<drvVars, maxScanLines, scannedLines, state, pendingLine, line, payload>>

\* The dictionary checkpoint that goes on after a hit.
DictProbed_Continues(p) ==
    /\ hist' = [hist EXCEPT !.calls = @ \o p.calls]
    /\ IF streamInline THEN Goto("stream") ELSE Goto("look")

\* for (const probe of subtypeProbes) { const hit = probe.onDict?.(...);
\*   if (hit) return hit; }, then the stream check
DictProbed(p) ==
    /\ hist' = [hist EXCEPT !.calls = @ \o p.calls]
    /\ IF p.hit # NoType THEN Return(p.hit, "onDict")
       ELSE IF streamInline THEN Goto("stream")
       ELSE Goto("look")

\* Dict probes
DictProbes ==
    /\ pc = "dprobe"
    /\ DictProbed(RunProbes("onDict", 1, dictText, objectInfo, <<>>))
    /\ nreads' = 0
    /\ UNCHANGED <<data, tpos, rdVars, drvVars, maxScanLines, scannedLines, state,
                   pendingLine, line, dictText, streamInline, objectInfo, payload>>

\* The lookahead without the pushback: a line that is not the stream
\* keyword is dropped.
LookedAhead_DropsLine(res) ==
    /\ SetReader(res.r)
    /\ hist' = [hist EXCEPT !.linesRead = @ + res.n]
    /\ IF ~res.ret.ok
       THEN Return(PDF_TYPE, "no line after the dictionary") /\ pendingLine' = res.pending
       ELSE IF Trim(res.ret.v) = "stream"
       THEN Goto("stream") /\ pendingLine' = res.pending
       ELSE Goto("loop") /\ pendingLine' = res.pending

\* const nextLine = await readLine(); if (nextLine === null) break;
\* if (nextLine.trim() === "stream") hasStream = true; else pendingLine = nextLine
LookedAhead(res) ==
    /\ SetReader(res.r)
    /\ hist' = [hist EXCEPT !.linesRead = @ + res.n]
    /\ IF ~res.ret.ok
       THEN Return(PDF_TYPE, "no line after the dictionary") /\ pendingLine' = res.pending
       ELSE IF Trim(res.ret.v) = "stream"
       THEN Goto("stream") /\ pendingLine' = res.pending
       ELSE Goto("loop") /\ pendingLine' = res.ret

\* Stream check with pushback
Lookahead ==
    /\ pc = "look"
    /\ \E k \in 1 .. ChunkSize : LookedAhead(ReadLineWrapper(k))
    /\ UNCHANGED <<drvVars, maxScanLines, scannedLines, state, line, dictText,
                   streamInline, objectInfo, payload>>

\* The payload read with "return undefined" for "break".
StreamBytesRead_Undefined(rb) ==
    /\ SetReader(rb.r)
    /\ hist' = [hist EXCEPT !.streamAt = getPosition(Reader)]
    /\ IF ~rb.ret.ok
       THEN Return(NoType, "stream cut short") /\ UNCHANGED payload
       ELSE Goto("decode") /\ payload' = rb.ret.v

\* const rawBytes = await reader.readBytes(streamLength); if (!rawBytes) break
StreamBytesRead(rb) ==
    /\ SetReader(rb.r)
    /\ hist' = [hist EXCEPT !.streamAt = getPosition(Reader)]
    /\ IF ~rb.ret.ok
       THEN Return(PDF_TYPE, "stream cut short") /\ UNCHANGED payload
       ELSE Goto("decode") /\ payload' = rb.ret.v

\* The stream is skipped unless Length is a string that parseInt reads as
\* a finite number >= 0.
StreamSkipped(lenVal) ==
    \/ ~Truthy(lenVal) \/ lenVal.kind = "true"
    \/ ~parseInt(lenVal.s).ok \/ parseInt(lenVal.s).n < 0

\* Length handling, consumeStreamEol, readBytes(streamLength)
StreamRead ==
    /\ pc = "stream"
    /\ IF StreamSkipped(Get(objectInfo, "Length"))
       THEN /\ Goto("loop")
            /\ nreads' = 0
            /\ UNCHANGED <<data, tpos, rdVars, payload, hist>>
       ELSE \E k \in 1 .. ChunkSize :
              StreamBytesRead(readBytes(consumeStreamEol(Reader, k),
                                        parseInt(Get(objectInfo, "Length").s).n, k))
    /\ UNCHANGED <<drvVars, maxScanLines, scannedLines, state, pendingLine, line,
                   dictText, streamInline, objectInfo>>

Decoded(d) ==
    /\ hist' = [hist EXCEPT !.tried = d.tried, !.raw = payload]
    /\ IF d.ok
       THEN Goto("sprobe") /\ payload' = textDecode(d.v)
       ELSE Throw("decodeStreamBytes") /\ UNCHANGED payload

\* decodeStreamBytes(objectInfo, rawBytes); textDecode(decodedBytes, 'utf-8')
Decode ==
    /\ pc = "decode"
    /\ Decoded(decodeStreamBytes(objectInfo, payload))
    /\ nreads' = 0
    /\ UNCHANGED <<data, tpos, rdVars, drvVars, maxScanLines, scannedLines, state,
                   pendingLine, line, dictText, streamInline, objectInfo>>

looksLikeXmp(info) ==
    \/ Get(info, "Type") = Str("Metadata")
    \/ Get(info, "Type") = Str("/Metadata")
    \/ Get(info, "Subtype") = Str("XML")
    \/ Get(info, "Subtype") = Str("/XML")
    \/ Get(info, "XML") = True

StreamProbed(p) ==
    /\ hist' = [hist EXCEPT !.calls = @ \o p.calls]
    /\ IF p.hit # NoType THEN Return(p.hit, "onStreamText")
       ELSE IF looksLikeXmp(objectInfo) /\ HasCreatorToolListeners
       THEN Goto("xml")
       ELSE Goto("loop")

\* Stream probes
StreamProbes ==
    /\ pc = "sprobe"
    /\ StreamProbed(RunProbes("onStreamText", 1, payload, objectInfo, <<>>))
    /\ nreads' = 0
    /\ UNCHANGED <<data, tpos, rdVars, drvVars, maxScanLines, scannedLines, state,
                   pendingLine, line, dictText, streamInline, objectInfo, payload>>

\* try { xml.write(streamText); xml.close() } catch (e) { ... }
XmlFed(events, x) ==
    /\ hist' = [hist EXCEPT !.calls = @ \o x.calls, !.events = events, !.seen = x.seen,
                            !.delivered = x.delivered]
    /\ IF x.kind = "hit" THEN Return(x.hit, "onCreatorTool")
       ELSE IF x.kind = "error" THEN Throw("xml")
       ELSE Goto("loop")

\* XMP CreatorTool: new XmlHandler, xml.write(streamText), xml.close()
XmlStep ==
    /\ pc = "xml"
    /\ \E events \in SaxRuns : XmlFed(events, XmlFeed(events, 1, FALSE, <<>>, <<>>))
    /\ nreads' = 0
    /\ UNCHANGED <<data, tpos, rdVars, drvVars, maxScanLines, scannedLines, state,
                   pendingLine, line, dictText, streamInline, objectInfo, payload>>

Next ==
    \/ DetectStart
    \/ ScanLine
    \/ ReadDict
    \/ DictProbes
    \/ Lookahead
    \/ StreamRead
    \/ Decode
    \/ StreamProbes
    \/ XmlStep

Spec == Init /\ [][Next]_vars

(***************************************************************************)
(* Properties of detect, checked under Spec.  prevTpos is the position of  *)
(* the tokenizer when detect was called.                                   *)
(***************************************************************************)
\* The first min(1024, available) bytes from the position detect was called
\* at hold the five bytes %PDF- in full.
HasSignature ==
    \E i \in 1 .. (Min(1024, Len(data) - prevTpos) - 4) :
        SubSeq(data, prevTpos + i, prevTpos + i + 4) = "%PDF-"

\* C1: on an input whose first min(1024, available) bytes hold no %PDF-
\* signature (the empty input, an input shorter than five bytes and a peek
\* that fails included), detect returns undefined, reads nothing from the
\* source, and leaves tokenizer.position where it was.
C1_NoSignatureLeavesSourceUntouched ==
    ~HasSignature =>
        /\ pc \in {"start", "done"}
        /\ tpos = prevTpos /\ nreads = 0 /\ buf = ""
        /\ pc = "done" => (outcome = "returned" /\ result = NoType)

\* detect has returned undefined with the tokenizer away from 0, on an
\* input whose signature lies just outside the window.
C1_Witness ==
    /\ pc = "done" /\ ~HasSignature /\ result = NoType
    /\ prevTpos > 0 /\ Includes(data, "%PDF-")

\* No hook has returned a classification.
NoHookMatched == \A i \in 1 .. Len(hist.calls) : hist.calls[i].ret = NoType

\* C2: on an input with the signature in the window, detect throws only on
\* a stream-decode or XML failure, and when it returns it never returns
\* undefined: with no hook matching, the result is exactly the PDF type,
\* whichever way the scan ended.
C2_SignatureNeverUndefined ==
    (HasSignature /\ pc = "done") =>
        /\ outcome = "threw" => ending \in {"decodeStreamBytes", "xml"}
        /\ outcome = "returned" =>
              /\ result # NoType
              /\ NoHookMatched => result = PDF_TYPE

\* The scan ended on a stream payload shorter than its declared Length,
\* and detect returned the PDF type.
C2_Witness ==
    /\ pc = "done" /\ HasSignature /\ ending = "stream cut short"
    /\ NoHookMatched /\ result = PDF_TYPE

\* What counts as an Illustrator marker, in what a hook is given.
CarriesMarker(c) ==
    CASE c.hook = "onDict" ->
            \/ Get(c.dict, "Illustrator") = True
            \/ Includes(c.text, "/Illustrator")
            \/ \E key \in {"Creator", "Producer"} :
                  /\ Get(c.dict, key).kind = "string"
                  /\ Includes(Get(c.dict, key).s, "Illustrator")
            \/ Includes(c.text, "Adobe Illustrator")
      [] c.hook = "onStreamText" -> Includes(c.text, "Adobe Illustrator")
      [] c.hook = "onCreatorTool" -> Includes(ToLowerCase(c.text), "illustrator")

AiReturned == pc = "done" /\ outcome = "returned" /\ result = AI_TYPE

FirstObjectDictionaryAt(o, b) ==
    /\ o # -1 /\ b # -1
    /\ IndexOfFrom(data, "/Illustrator", b) # -1
    /\ IndexOfFrom(data, ">>", b) > IndexOfFrom(data, "/Illustrator", b)
    /\ IndexOfFrom(data, "endobj", o) \notin 0 .. IndexOfFrom(data, ">>", b)

FirstObjectAt(o) == FirstObjectDictionaryAt(o, IF o = -1 THEN -1 ELSE IndexOfFrom(data, "<<", o))

ObjectDictionaryHasMarker == FirstObjectAt(IndexOf(data, " obj"))

EarlierProbes(i, hook) == {j \in 1 .. (i - 1) : hook \in subtypeProbes[j].hooks}

\* C4: at each checkpoint the hooks are invoked in the declared probe
\* order, and the first hook to return a classification ends the call with
\* exactly that classification: no hook is invoked after it, that step
\* reads nothing, no XML event after the one that hit is processed, and no
\* step follows.
C4_FirstHitEndsScan ==
    \A i \in 1 .. Len(hist.calls) :
        LET c == hist.calls[i]
        IN /\ c.hook \in subtypeProbes[c.probe].hooks
           /\ EarlierProbes(c.probe, c.hook) # {} =>
                 /\ i > 1
                 /\ hist.calls[i - 1].probe = MaxOf(EarlierProbes(c.probe, c.hook))
                 /\ hist.calls[i - 1].hook = c.hook
                 /\ hist.calls[i - 1].text = c.text
           /\ c.ret # NoType =>
                 /\ i = Len(hist.calls)
                 /\ pc = "done" /\ outcome = "returned" /\ result = c.ret
                 /\ ending = c.hook
                 /\ nreads = 0
                 /\ ~ENABLED Next
                 /\ c.hook = "onCreatorTool" =>
                       /\ hist.seen \in 1 .. Len(hist.events)
                       /\ hist.events[hist.seen] = Text(c.text)
                       /\ hist.delivered[Len(hist.delivered)] = c.text

\* A CreatorTool text hit after the dictionary and stream hooks and an
\* earlier CreatorTool text had not, with XML events left unprocessed.
C4_Witness ==
    /\ pc = "done" /\ ending = "onCreatorTool" /\ result = AI_TYPE
    /\ Len(hist.calls) >= 4
    /\ hist.seen < Len(hist.events)

\* The input is the header followed by n object-start lines and nothing
\* else, with n > maxScanLines.
IsObjLinesDoc ==
    \E n \in 1 .. (MaxBudget + 1) :
        /\ n > maxScanLines
        /\ \/ data = Pad(prevTpos) \o Header \o ObjLines(n)
           \/ data = Pad(prevTpos) \o Header \o ObjLines(n) \o "\n"

\* C5: the body of the scan loop is entered at most maxScanLines times in
\* any run, and on an input of more than maxScanLines object-start lines
\* and nothing else detect terminates and returns the PDF type: every step
\* after the first is a loop test, which adds one to scannedLines, and
\* scannedLines never passes maxScanLines + 1.
C5_BudgetBoundsTheLoop ==
    /\ [](/\ hist.iterations <= maxScanLines
          /\ scannedLines <= maxScanLines + 1
          /\ IsObjLinesDoc =>
                /\ pc \in {"start", "loop", "done"}
                /\ pc = "loop" => scannedLines = hist.iterations
                /\ pc = "done" =>
                      (outcome = "returned" /\ result = PDF_TYPE /\ ending = "budget"))
    /\ [][(IsObjLinesDoc /\ pc # "start") => scannedLines' = scannedLines + 1]_vars

\* The largest budget tried was used up, one loop body per line, on an
\* input with one more object-start line than that.
C5_Witness ==
    /\ pc = "done" /\ IsObjLinesDoc /\ maxScanLines = MaxBudget
    /\ hist.iterations = maxScanLines /\ ending = "budget" /\ result = PDF_TYPE

\* C6: in every run of detect the lines read from the source (handed to the
\* state machine, accumulated as dictionary text, or read as lookahead)
\* number at most maxScanLines.
C6_LinesReadWithinBudget == hist.linesRead <= maxScanLines

\* A stream was just decoded, or its decoding just threw.
JustDecoded == pc = "sprobe" \/ (pc = "done" /\ ending = "decodeStreamBytes")

\* C7: when the filter chain resolves to FlateDecode alone, the zlib-wrapped
\* inflate is attempted first and the raw inflate only after it failed; the
\* first attempt to succeed gives the decoded payload; when both fail,
\* detect throws: it returns no classification and does not fall back to
\* the raw bytes.
C7_FlateZlibThenRaw ==
    (JustDecoded /\ normalizeFilters(Get(objectInfo, "Filter")) = <<"FlateDecode">>) =>
        IF inflateWithFormat("deflate", hist.raw).ok
        THEN /\ hist.tried = <<"deflate">>
             /\ pc = "sprobe" /\ payload = inflateWithFormat("deflate", hist.raw).v
        ELSE IF inflateWithFormat("deflate-raw", hist.raw).ok
        THEN /\ hist.tried = <<"deflate", "deflate-raw">>
             /\ pc = "sprobe" /\ payload = inflateWithFormat("deflate-raw", hist.raw).v
        ELSE /\ hist.tried = <<"deflate", "deflate-raw">>
             /\ pc = "done" /\ outcome = "threw" /\ result = NoType

\* Both attempts failed on a FlateDecode stream and detect threw.
C7_Witness ==
    /\ pc = "done" /\ outcome = "threw" /\ ending = "decodeStreamBytes"
    /\ normalizeFilters(Get(objectInfo, "Filter")) = <<"FlateDecode">>
    /\ hist.tried = <<"deflate", "deflate-raw">> /\ hist.raw # ""

\* The declared chain names a recognized filter other than FlateDecode.
DeclaresOtherFilter ==
    /\ Get(objectInfo, "Filter").kind = "string"
    /\ \E f \in {"ASCII85Decode", "LZWDecode", "RunLengthDecode"} :
          Includes(Get(objectInfo, "Filter").s, f)

\* C8: for a declared chain with a recognized filter other than FlateDecode
\* at any position, decodeStreamBytes attempts no inflate, returns the raw
\* payload unchanged and does not throw; the scan goes on with the raw
\* bytes.
C8_OtherFilterPassesRawThrough ==
    (JustDecoded /\ DeclaresOtherFilter) =>
        (hist.tried = <<>> /\ pc = "sprobe" /\ payload = hist.raw)

(***************************************************************************)
(* Properties of the reader, checked under SpecReader.  prevRest is the    *)
(* unconsumed input and prevTpos the position of the tokenizer before the  *)
(* last call, out what the call returned.                                  *)
(***************************************************************************)
\* The places of the line feeds in the unconsumed input before the call.
LineFeeds == {j \in 1 .. Len(prevRest) : SubSeq(prevRest, j, j) = "\n"}

\* s without one trailing carriage return.
DropCr(s) ==
    IF Len(s) > 0 /\ SubSeq(s, Len(s), Len(s)) = "\r" THEN SubSeq(s, 1, Len(s) - 1) ELSE s

\* C9: readLine returns the unconsumed input up to its first line feed,
\* without the line feed and without one carriage return before it, and
\* consumes it with the line feed; with no line feed left it returns the
\* unterminated rest, if not empty, once as a last line; with nothing left
\* (after a last line, or after an input that ended in a line feed) it
\* returns null.
C9_ReadLineSegments ==
    lastOp = "readLine" =>
        IF LineFeeds # {}
        THEN /\ out.ok
             /\ out.v = DropCr(SubSeq(prevRest, 1, MinOf(LineFeeds) - 1))
             /\ Rest(Reader) = SubSeq(prevRest, MinOf(LineFeeds) + 1, Len(prevRest))
        ELSE IF prevRest # ""
        THEN out.ok /\ out.v = prevRest /\ Rest(Reader) = ""
        ELSE ~out.ok /\ Rest(Reader) = ""

\* readLine returned a line that ended in CR LF, after several reads of
\* the source, with more input behind it.
C9_Witness ==
    /\ lastOp = "readLine" /\ out.ok /\ out.v = "a"
    /\ prevRest = "a\r\na" /\ nreads >= 2

\* The logical position before the last call: the position of the
\* tokenizer less the bytes that were buffered and unconsumed.
PositionBefore == prevTpos - (Len(prevRest) - (Len(data) - prevTpos))

\* C10: readBytes(n), n >= 0, returns exactly the next n unconsumed bytes
\* and advances the logical position by n when at least n bytes remain in
\* buffer and source together; with fewer it returns null and leaves the
\* logical position and the unconsumed bytes as they were; readBytes(0)
\* returns an empty buffer without reading the source.
C10_ReadBytesExactOrNull ==
    lastOp = "readBytes" =>
        /\ IF Len(prevRest) >= out.n
           THEN /\ out.ok /\ out.v = SubSeq(prevRest, 1, out.n)
                /\ Rest(Reader) = SubSeq(prevRest, out.n + 1, Len(prevRest))
                /\ getPosition(Reader) = PositionBefore + out.n
           ELSE /\ ~out.ok
                /\ Rest(Reader) = prevRest
                /\ getPosition(Reader) = PositionBefore
        /\ out.n = 0 => (out.v = "" /\ nreads = 0 /\ tpos = prevTpos)

\* readBytes returned fewer bytes than remained, part of them from the
\* buffer and part from the source.
C10_Witness ==
    /\ lastOp = "readBytes" /\ out.ok /\ out.n >= 2
    /\ Len(prevRest) > out.n
    /\ Len(prevRest) > Len(data) - prevTpos
    /\ nreads >= 1

\* C11: after any sequence of readLine, readBytes and consumeStreamEol
\* calls, short reads and calls that hit the end of the source included,
\* the unconsumed buffered bytes followed by the unread bytes of the source
\* are the suffix of the input that starts at getPosition(); getPosition()
\* grows by what each call consumes, never decreases, and is the position
\* of the source whenever no buffered byte is unconsumed.
C11_PositionTracksConsumption ==
    /\ 0 <= pos /\ pos <= Len(buf)
    /\ getPosition(Reader) \in 0 .. Len(data)
    /\ Rest(Reader) = SubSeq(data, getPosition(Reader) + 1, Len(data))
    /\ Len(Rest(Reader)) <= Len(prevRest)
    /\ Rest(Reader) = SubSeq(prevRest, Len(prevRest) - Len(Rest(Reader)) + 1, Len(prevRest))
    /\ getPosition(Reader) = PositionBefore + (Len(prevRest) - Len(Rest(Reader)))
    /\ getPosition(Reader) >= PositionBefore
    /\ (Len(buf) - pos = 0) => getPosition(Reader) = tpos

\* readBytes asked for more than was left and returned null after several
\* short reads, with bytes buffered and unconsumed.
C11_Witness ==
    /\ lastOp = "readBytes" /\ ~out.ok /\ eof
    /\ nreads >= 2 /\ Len(buf) - pos >= 2
    /\ getPosition(Reader) > 0

(***************************************************************************)
(* More properties of detect, checked under Spec.                          *)
(***************************************************************************)
\* The declared Length of the stream being read.
DeclaredLength == parseInt(Get(objectInfo, "Length").s).n

\* C12: when the scanner has read a stream payload with literal Length n,
\* the bytes handed to decodeStreamBytes are the n bytes of the source that
\* follow the line terminator of the stream keyword line, whatever the
\* payload begins with, and scanning resumes right after them.
C12_PayloadFollowsKeywordLine ==
    pc = "decode" =>
        /\ hist.streamAt > 0
        /\ SubSeq(data, hist.streamAt, hist.streamAt) = "\n"
        /\ EndsWith(DropCr(SubSeq(data, 1, hist.streamAt - 1)), "stream")
        /\ payload = SubSeq(data, hist.streamAt + 1, hist.streamAt + DeclaredLength)
        /\ getPosition(Reader) = hist.streamAt + DeclaredLength

\* v is a string of decimal digits and nothing else.
IsLiteralLength(v) ==
    /\ v.kind = "string" /\ v.s # ""
    /\ \A i \in 1 .. Len(v.s) : SubSeq(v.s, i, i) \in Digits

\* C13: a stream whose declared Length is not a literal non-negative
\* integer (an indirect reference such as 12 0 R in particular) is skipped:
\* no payload is read for it, nothing is decoded and no stream-text hook is
\* invoked for that object.
C13_NonLiteralLengthSkipsStream ==
    (\/ pc \in {"decode", "sprobe", "xml"}
     \/ ending \in {"stream cut short", "decodeStreamBytes", "onStreamText", "xml",
                    "onCreatorTool"})
        => IsLiteralLength(Get(objectInfo, "Length"))

\* The dictionary just parsed declares FlateDecode, and only it, as a name.
DeclaresFlateName ==
    \/ Includes(dictText, "/Filter /FlateDecode")
    \/ Includes(dictText, "/Filter [/FlateDecode]")

\* C14: for a stream whose dictionary declares the filter as a name
\* (/Filter /FlateDecode or /Filter [/FlateDecode]) the chain is
\* <<FlateDecode>>: the payload is inflated, and the hooks are given the
\* inflated text, not the raw bytes.
C14_NameFilterIsInflated ==
    (JustDecoded /\ DeclaresFlateName) =>
        /\ normalizeFilters(Get(objectInfo, "Filter")) = <<"FlateDecode">>
        /\ hist.tried # <<>>
        /\ pc = "sprobe" => payload = inflateFlateDecode(hist.raw).v

\* The text between the first << of l and the first >> after it, trimmed;
\* "" when l holds no such pair.
DictionaryOnLine(l) ==
    IF IndexOf(l, "<<") = -1 \/ IndexOfFrom(l, ">>", IndexOf(l, "<<") + 2) = -1 THEN ""
    ELSE Trim(Slice(l, IndexOf(l, "<<") + 3, IndexOfFrom(l, ">>", IndexOf(l, "<<") + 2)))

\* C15: a non-empty << ... >> of an indirect object is parsed and offered
\* to the on-dictionary hooks before the scan moves past it; here, for a
\* dictionary that lies on one line: once the loop is done with a line of
\* an object (the object header line included) that holds such a
\* dictionary, an on-dictionary hook has been given its text.
C15_DictionaryOfferedBeforeMovingOn ==
    (pc = "loop" /\ state = 10 /\ DictionaryOnLine(line) # "") =>
        \E i \in 1 .. Len(hist.calls) :
            /\ hist.calls[i].hook = "onDict"
            /\ hist.calls[i].text = DictionaryOnLine(line)

\* The characters i..j of l, at least one, are all of class.
RunOf(l, i, j, class) ==
    i <= j /\ \A x \in i .. j : SubSeq(l, x, x) \in class

\* l begins (after white space, if any) with two integers and the token
\* obj, separated by white space.
IsObjectStart(l) ==
    \E a \in 0 .. Len(l) :
        /\ \A x \in 1 .. a : SubSeq(l, x, x) \in Space
        /\ \E b \in (a + 1) .. Len(l) :
              /\ RunOf(l, a + 1, b, Digits)
              /\ \E c \in (b + 1) .. Len(l) :
                    /\ RunOf(l, b + 1, c, Space)
                    /\ \E d \in (c + 1) .. Len(l) :
                          /\ RunOf(l, c + 1, d, Digits)
                          /\ \E e \in (d + 1) .. (Len(l) - 3) :
                                /\ RunOf(l, d + 1, e, Space)
                                /\ SubSeq(l, e + 1, e + 3) = "obj"
                                /\ \/ e + 3 = Len(l)
                                   \/ SubSeq(l, e + 4, e + 4) \notin WordChars

\* l is endobj with nothing but white space around it.
IsObjectEnd(l) ==
    \E a \in 0 .. Len(l) :
        /\ a + 6 <= Len(l)
        /\ SubSeq(l, a + 1, a + 6) = "endobj"
        /\ \A x \in (1 .. a) \cup ((a + 7) .. Len(l)) : SubSeq(l, x, x) \in Space

\* C16: the scan state starts as ROOT (0) and changes only from ROOT to
\* IN_OBJECT (10) on a line that begins with two integers and the token
\* obj, and from IN_OBJECT to ROOT on a line that is endobj when trimmed; a
\* dictionary is read, a hook invoked and a stream read only in IN_OBJECT,
\* so a dictionary on a line seen in ROOT reaches no hook.
C16_StateMachine ==
    /\ [](/\ state \in {0, 10}
          /\ pc = "start" => state = 0
          /\ pc \in {"dict", "dprobe", "look", "stream", "decode", "sprobe", "xml"}
                => state = 10)
    /\ [][/\ state' # state =>
                \/ state = 0 /\ state' = 10 /\ IsObjectStart(line')
                \/ state = 10 /\ state' = 0 /\ IsObjectEnd(line')
          /\ (state = 0 /\ line' # line) => pc' \in {"loop", "done"}
          /\ hist'.calls # hist.calls => (state = 10 /\ state' = 10)
          /\ (state = 0 /\ pc = "loop" /\ pc' = "loop" /\ state' = 0)
                => ~IsObjectStart(line')
          /\ (state = 10 /\ pc = "loop" /\ pc' = "loop" /\ state' = 10)
                => ~IsObjectEnd(line')]_vars

\* The scan went into an object and out of it again, then saw a trailer
\* dictionary with a marker in ROOT, and ended with no hook invoked.
C16_Witness ==
    /\ pc = "done" /\ state = 0 /\ result = PDF_TYPE /\ ending = "no more lines"
    /\ line = "<< /Illustrator >>" /\ hist.calls = <<>>
    /\ Includes(data, "endobj\n<< /Illustrator >>")

\* l is the line the reader consumed in moving from position p to q: the
\* bytes between are l and its terminator, or l itself up to the end of
\* the input.
IsLineBetween(l, p, q) ==
    \/ SubSeq(data, p + 1, q) = l \o "\n"
    \/ SubSeq(data, p + 1, q) = l \o "\r\n"
    \/ q = Len(data) /\ l # "" /\ SubSeq(data, p + 1, q) = l

\* C17: a lookahead line that is not the stream keyword goes into the one
\* pending slot and is the next line the loop processes, once, without the
\* reader being touched; the slot is empty when it is written and whenever
\* the reader is read directly (dictionary accumulation, lookahead, stream
\* payload), so lines reach the state machine in source order, none lost or
\* repeated, and no stream bytes are read while a line is pushed back.
C17_PendingLineIsNext ==
    /\ [](/\ pendingLine.ok =>
                /\ pc \in {"loop", "done"}
                /\ \E p \in 0..getPosition(Reader) :
                      IsLineBetween(pendingLine.v, p, getPosition(Reader))
          /\ (pendingLine.ok /\ pc = "done") => ending = "budget")
    /\ [][/\ (pc = "look" /\ pc' = "loop") =>
                /\ ~pendingLine.ok /\ pendingLine'.ok
                /\ Trim(pendingLine'.v) # "stream"
                /\ IsLineBetween(pendingLine'.v, getPosition(Reader), getPosition(Reader)')
          /\ (pc = "look" /\ pc' # "loop") => (~pendingLine.ok /\ ~pendingLine'.ok)
          /\ pendingLine.ok =>
                /\ buf' = buf /\ pos' = pos /\ tpos' = tpos /\ nreads' = 0
                /\ \/ pc' = "done" /\ ending' = "budget" /\ pendingLine' = pendingLine
                   \/ /\ line' = pendingLine.v /\ ~pendingLine'.ok
                      /\ hist'.iterations = hist.iterations + 1
                      /\ hist'.linesRead = hist.linesRead
          /\ (~pendingLine.ok /\ pc = "loop" /\ hist'.iterations # hist.iterations
                /\ pc' # "done") =>
                /\ IsLineBetween(line', getPosition(Reader), getPosition(Reader)')]_vars

\* The line after a dictionary was endobj, not stream: it was pushed back
\* and then processed by the loop, which took the scan back to ROOT.
C17_Witness ==
    /\ pc = "loop" /\ state = 0 /\ line = "endobj" /\ ~pendingLine.ok
    /\ nreads = 0 /\ hist.iterations = 4 /\ hist.linesRead = 4
    /\ Includes(data, "<< /Type /Catalog >>\nendobj")

\* The stream's dictionary, as written, has Type Metadata, Subtype XML or
\* an XML flag.
DeclaresXmp ==
    \/ Includes(dictText, "/Type /Metadata")
    \/ Includes(dictText, "/Subtype /XML")
    \/ Includes(dictText, "/XML")

\* C18: when the stream probes have run and none matched, the decoded text
\* goes to the XML parser exactly when the dictionary has Type Metadata,
\* Subtype XML or an XML flag, written as PDF names, and some probe has the
\* creator-tool hook.
C18_XmpStreamIsFed ==
    [][(pc = "sprobe" /\ pc' # "done") =>
          (pc' = "xml" <=> (DeclaresXmp /\ HasCreatorToolListeners))]_vars

\* Event e opens a CreatorTool element: XMP namespace with local name
\* CreatorTool, or a name that is CreatorTool or ends in :CreatorTool.
IsCreatorToolOpen(e) ==
    /\ e.t = "open"
    /\ \/ e.uri = "http://ns.adobe.com/xap/1.0/" /\ e.local = "CreatorTool"
       \/ e.name = "CreatorTool"
       \/ EndsWith(e.name, ":CreatorTool")

\* Event i is a text, the most recent tag event before it opened a
\* CreatorTool element, and no text has arrived since that opening.
IsCreatorToolValue(events, i) ==
    /\ events[i].t = "text"
    /\ \E j \in 1 .. i - 1 :
          /\ IsCreatorToolOpen(events[j])
          /\ \A k \in j + 1 .. i - 1 : events[k].t = "error"

\* The texts among the first n events that are creator-tool values.
RECURSIVE CreatorToolValues(_, _)
CreatorToolValues(events, n) ==
    IF n = 0 THEN <<>>
    ELSE IF IsCreatorToolValue(events, n)
    THEN Append(CreatorToolValues(events, n - 1), events[n].text)
    ELSE CreatorToolValues(events, n - 1)

\* The texts the creator-tool hooks were called with, in call order.
CreatorToolCalls ==
    LET IsCreatorToolCall(c) == c.hook = "onCreatorTool"
        calls == SelectSeq(hist.calls, IsCreatorToolCall)
    IN [i \in 1 .. Len(calls) |-> calls[i].text]

\* C19: the creator-tool callback fires only for a text that arrives while
\* the most recent tag event was the opening of a CreatorTool element, and
\* at most once per opening: of the events the handler received, the texts
\* delivered, and the texts the hooks were called with, are exactly the
\* first text after each CreatorTool opening with no close, no other
\* opening and no earlier text in between.
C19_CreatorToolTextOnly ==
    /\ hist.seen <= Len(hist.events)
    /\ hist.delivered = CreatorToolValues(hist.events, hist.seen)
    /\ CreatorToolCalls = hist.delivered

\* The feed delivered Inkscape after a CreatorTool opening, no hook
\* matched, and the text that followed in the same element was not
\* delivered.
C19_Witness ==
    /\ pc = "done" /\ hist.delivered = <<"Inkscape">> /\ hist.seen = 5
    /\ hist.events[3] = Text("Illustrator")
    /\ hist.events[1].name = "xmp:CreatorTool"

\* The message of a parse error for an invalid character entity.
IsEntityError(msg) == Len(msg) >= 24 /\ SubSeq(msg, 1, 24) = "Invalid character entity"

\* C20: in the XML feed an invalid-character-entity error is cleared and
\* the events after it still reach the handler; any other parse error is
\* the last event handled and detect throws, returning no classification;
\* and a value thrown out of the feed becomes the result of detect only
\* when it is the classification a creator-tool hook just returned.
C20_XmlErrors ==
    /\ \A i \in 1 .. hist.seen :
          hist.events[i].t = "error" =>
              IF IsEntityError(hist.events[i].text)
              THEN i < hist.seen \/ i = Len(hist.events)
              ELSE /\ i = hist.seen
                   /\ pc = "done" /\ outcome = "threw" /\ ending = "xml"
                   /\ result = NoType
    /\ ending = "xml" =>
          /\ outcome = "threw" /\ hist.seen >= 1
          /\ hist.events[hist.seen].t = "error"
          /\ ~IsEntityError(hist.events[hist.seen].text)
    /\ ending = "onCreatorTool" =>
          /\ outcome = "returned" /\ result # NoType
          /\ hist.calls[Len(hist.calls)].hook = "onCreatorTool"
          /\ hist.calls[Len(hist.calls)].ret = result
          /\ hist.calls[Len(hist.calls)].text = hist.events[hist.seen].text
    /\ outcome = "threw" => result = NoType

\* The feed began with an invalid-character-entity error, went on, and the
\* CreatorTool text after it gave the Illustrator classification.
C20_Witness ==
    /\ pc = "done" /\ ending = "onCreatorTool" /\ result = AI_TYPE
    /\ hist.events[1] = Error("Invalid character entity") /\ hist.seen = 3
    /\ hist.delivered = <<"illustrator">>

(***************************************************************************)
(* More properties of the reader, checked under SpecReader.                *)
(***************************************************************************)
\* The length of the one line terminator at the start of s: 2 for CR LF,
\* 1 for LF or for a CR not followed by LF, 0 when s starts with anything
\* else or is empty.
TerminatorLength(s) ==
    IF Len(s) >= 2 /\ SubSeq(s, 1, 2) = "\r\n" THEN 2
    ELSE IF Len(s) >= 1 /\ SubSeq(s, 1, 1) \in {"\n", "\r"} THEN 1
    ELSE 0

\* C21: consumeStreamEol consumes exactly one line terminator at the cursor
\* and nothing else: two bytes for CR LF, one for LF or for a CR not
\* followed by LF (a CR that ends the input included), none when the next
\* byte is anything else or the input is exhausted; what follows the
\* terminator, a second terminator included, stays unconsumed.
C21_ConsumesOneTerminator ==
    lastOp = "consumeStreamEol" =>
        /\ Rest(Reader) = SubSeq(prevRest, TerminatorLength(prevRest) + 1, Len(prevRest))
        /\ getPosition(Reader) = PositionBefore + TerminatorLength(prevRest)
        /\ out = Null

\* CR LF was consumed, the two bytes coming from separate reads of the
\* source, and the line feed right after them was left.
C21_Witness ==
    /\ lastOp = "consumeStreamEol" /\ prevRest = "\r\n\na"
    /\ Rest(Reader) = "\na" /\ nreads >= 2

(***************************************************************************)
(* The header sniffer and the skip, checked under Spec.                    *)
(***************************************************************************)
\* The signature starts i bytes after the position detect was called at and
\* ends within the first min(1024, available) bytes.
SignatureAt(i) ==
    /\ i + 5 <= Min(1024, Len(data) - prevTpos)
    /\ SubSeq(data, prevTpos + i + 1, prevTpos + i + 5) = "%PDF-"

\* The offset of the first signature in the window.
FirstSignatureOffset ==
    CHOOSE i \in 0 .. 1019 : SignatureAt(i) /\ \A j \in 0 .. i - 1 : ~SignatureAt(j)

\* The input from the first signature on begins with t.
SignatureLineIs(t) ==
    /\ prevTpos + FirstSignatureOffset + Len(t) <= Len(data)
    /\ t = SubSeq(data, prevTpos + FirstSignatureOffset + 1,
                  prevTpos + FirstSignatureOffset + Len(t))

\* C22: detect takes the input for a PDF exactly when the signature lies
\* whole within the first min(1024, available) bytes; it then advances the
\* source by exactly the offset k of the first signature before any line
\* is read, with one read when k > 0 and none when k = 0, so the first
\* line the scanner gets starts with %PDF-.
C22_SkipsToFirstSignature ==
    /\ pc # "start" => ((ending = "not a PDF") <=> ~HasSignature)
    /\ (pc = "loop" /\ hist.iterations = 0) =>
          /\ HasSignature
          /\ tpos = prevTpos + FirstSignatureOffset
          /\ getPosition(Reader) = prevTpos + FirstSignatureOffset
          /\ buf = "" /\ hist.linesRead = 0
          /\ nreads = (IF FirstSignatureOffset = 0 THEN 0 ELSE 1)
    /\ hist.iterations = 1 =>
          /\ Len(line) >= 5 /\ SubSeq(line, 1, 5) = "%PDF-"
          /\ \/ SignatureLineIs(line \o "\n")
             \/ SignatureLineIs(line \o "\r\n")
             \/ line = SubSeq(data, prevTpos + FirstSignatureOffset + 1, Len(data))
    /\ ending # "skipBytes"

\* With the tokenizer at 1 and two preamble bytes before the first of two
\* signatures, the first line the scanner got is the one that begins at
\* the first signature.
C22_Witness ==
    /\ hist.iterations = 1 /\ line = "%PDF-1.4" /\ prevTpos = 1
    /\ FirstSignatureOffset = 2
    /\ Includes(data, "ab%PDF-1.4\n%PDF-1.1")

====
